---- MODULE Spec2Model ----
\* Model of backend/app.py: build_result(text, terms) and the functions it calls.
\* A Python str is a sequence of Unicode codepoints: "a b" is <<97, 32, 98>>.
\* A Python dict is a sequence of records [k |-> key, v |-> value] in insertion
\* order, with at most one record per key.
EXTENDS Integers, Sequences, FiniteSets, TLC

VARIABLES text, terms, pc, counts, result

vars == <<text, terms, pc, counts, result>>

-----------------------------------------------------------------------------
\* Bounds of the checked inputs.

\* Longest text of a call with at most one term.
MaxTextLen == 5

\* Longest text of a call with several terms.
MaxShortLen == 3

\* Longest term list.
MaxTerms == 2

-----------------------------------------------------------------------------
\* Character classes of the regular expressions and of str.strip().

\* [0-9A-Za-z가-힣]
IsAlnum(c) ==
    \/ c \in 48..57
    \/ c \in 65..90
    \/ c \in 97..122
    \/ c \in 44032..55203

\* \s of a str pattern, which is also what str.strip() removes (str.isspace()).
IsSpace(c) ==
    \/ c \in 9..13
    \/ c \in 28..32
    \/ c \in {133, 160, 5760, 8232, 8233, 8239, 8287, 12288}
    \/ c \in 8192..8202

\* [^\s0-9A-Za-z가-힣]
IsJoiner(c) == ~IsSpace(c) /\ ~IsAlnum(c)

\* str.lower() is Unicode's lower-casing (CPython 3.11, Unicode 14.0.0). The
\* three tables below are its data.

\* <<lo, hi, step, delta>>: every codepoint lo, lo + step, ..., hi outside ASCII
\* whose lower case is the single codepoint delta further on.
LowerRanges ==
    {
      <<192, 214, 1, 32>>, <<216, 222, 1, 32>>, <<256, 302, 2, 1>>, <<306, 310, 2, 1>>,
      <<313, 327, 2, 1>>, <<330, 374, 2, 1>>, <<376, 376, 1, -121>>, <<377, 381, 2, 1>>,
      <<385, 385, 1, 210>>, <<386, 388, 2, 1>>, <<390, 390, 1, 206>>, <<391, 391, 1, 1>>,
      <<393, 394, 1, 205>>, <<395, 395, 1, 1>>, <<398, 398, 1, 79>>, <<399, 399, 1, 202>>,
      <<400, 400, 1, 203>>, <<401, 401, 1, 1>>, <<403, 403, 1, 205>>, <<404, 404, 1, 207>>,
      <<406, 406, 1, 211>>, <<407, 407, 1, 209>>, <<408, 408, 1, 1>>, <<412, 412, 1, 211>>,
      <<413, 413, 1, 213>>, <<415, 415, 1, 214>>, <<416, 420, 2, 1>>, <<422, 422, 1, 218>>,
      <<423, 423, 1, 1>>, <<425, 425, 1, 218>>, <<428, 428, 1, 1>>, <<430, 430, 1, 218>>,
      <<431, 431, 1, 1>>, <<433, 434, 1, 217>>, <<435, 437, 2, 1>>, <<439, 439, 1, 219>>,
      <<440, 440, 1, 1>>, <<444, 444, 1, 1>>, <<452, 452, 1, 2>>, <<453, 453, 1, 1>>,
      <<455, 455, 1, 2>>, <<456, 456, 1, 1>>, <<458, 458, 1, 2>>, <<459, 475, 2, 1>>,
      <<478, 494, 2, 1>>, <<497, 497, 1, 2>>, <<498, 500, 2, 1>>, <<502, 502, 1, -97>>,
      <<503, 503, 1, -56>>, <<504, 542, 2, 1>>, <<544, 544, 1, -130>>, <<546, 562, 2, 1>>,
      <<570, 570, 1, 10795>>, <<571, 571, 1, 1>>, <<573, 573, 1, -163>>, <<574, 574, 1, 10792>>,
      <<577, 577, 1, 1>>, <<579, 579, 1, -195>>, <<580, 580, 1, 69>>, <<581, 581, 1, 71>>,
      <<582, 590, 2, 1>>, <<880, 882, 2, 1>>, <<886, 886, 1, 1>>, <<895, 895, 1, 116>>,
      <<902, 902, 1, 38>>, <<904, 906, 1, 37>>, <<908, 908, 1, 64>>, <<910, 911, 1, 63>>,
      <<913, 929, 1, 32>>, <<931, 939, 1, 32>>, <<975, 975, 1, 8>>, <<984, 1006, 2, 1>>,
      <<1012, 1012, 1, -60>>, <<1015, 1015, 1, 1>>, <<1017, 1017, 1, -7>>, <<1018, 1018, 1, 1>>,
      <<1021, 1023, 1, -130>>, <<1024, 1039, 1, 80>>, <<1040, 1071, 1, 32>>, <<1120, 1152, 2, 1>>,
      <<1162, 1214, 2, 1>>, <<1216, 1216, 1, 15>>, <<1217, 1229, 2, 1>>, <<1232, 1326, 2, 1>>,
      <<1329, 1366, 1, 48>>, <<4256, 4293, 1, 7264>>, <<4295, 4295, 1, 7264>>, <<4301, 4301, 1, 7264>>,
      <<5024, 5103, 1, 38864>>, <<5104, 5109, 1, 8>>, <<7312, 7354, 1, -3008>>, <<7357, 7359, 1, -3008>>,
      <<7680, 7828, 2, 1>>, <<7838, 7838, 1, -7615>>, <<7840, 7934, 2, 1>>, <<7944, 7951, 1, -8>>,
      <<7960, 7965, 1, -8>>, <<7976, 7983, 1, -8>>, <<7992, 7999, 1, -8>>, <<8008, 8013, 1, -8>>,
      <<8025, 8031, 2, -8>>, <<8040, 8047, 1, -8>>, <<8072, 8079, 1, -8>>, <<8088, 8095, 1, -8>>,
      <<8104, 8111, 1, -8>>, <<8120, 8121, 1, -8>>, <<8122, 8123, 1, -74>>, <<8124, 8124, 1, -9>>,
      <<8136, 8139, 1, -86>>, <<8140, 8140, 1, -9>>, <<8152, 8153, 1, -8>>, <<8154, 8155, 1, -100>>,
      <<8168, 8169, 1, -8>>, <<8170, 8171, 1, -112>>, <<8172, 8172, 1, -7>>, <<8184, 8185, 1, -128>>,
      <<8186, 8187, 1, -126>>, <<8188, 8188, 1, -9>>, <<8486, 8486, 1, -7517>>, <<8490, 8490, 1, -8383>>,
      <<8491, 8491, 1, -8262>>, <<8498, 8498, 1, 28>>, <<8544, 8559, 1, 16>>, <<8579, 8579, 1, 1>>,
      <<9398, 9423, 1, 26>>, <<11264, 11311, 1, 48>>, <<11360, 11360, 1, 1>>, <<11362, 11362, 1, -10743>>,
      <<11363, 11363, 1, -3814>>, <<11364, 11364, 1, -10727>>, <<11367, 11371, 2, 1>>, <<11373, 11373, 1, -10780>>,
      <<11374, 11374, 1, -10749>>, <<11375, 11375, 1, -10783>>, <<11376, 11376, 1, -10782>>, <<11378, 11378, 1, 1>>,
      <<11381, 11381, 1, 1>>, <<11390, 11391, 1, -10815>>, <<11392, 11490, 2, 1>>, <<11499, 11501, 2, 1>>,
      <<11506, 11506, 1, 1>>, <<42560, 42604, 2, 1>>, <<42624, 42650, 2, 1>>, <<42786, 42798, 2, 1>>,
      <<42802, 42862, 2, 1>>, <<42873, 42875, 2, 1>>, <<42877, 42877, 1, -35332>>, <<42878, 42886, 2, 1>>,
      <<42891, 42891, 1, 1>>, <<42893, 42893, 1, -42280>>, <<42896, 42898, 2, 1>>, <<42902, 42920, 2, 1>>,
      <<42922, 42922, 1, -42308>>, <<42923, 42923, 1, -42319>>, <<42924, 42924, 1, -42315>>, <<42925, 42925, 1, -42305>>,
      <<42926, 42926, 1, -42308>>, <<42928, 42928, 1, -42258>>, <<42929, 42929, 1, -42282>>, <<42930, 42930, 1, -42261>>,
      <<42931, 42931, 1, 928>>, <<42932, 42946, 2, 1>>, <<42948, 42948, 1, -48>>, <<42949, 42949, 1, -42307>>,
      <<42950, 42950, 1, -35384>>, <<42951, 42953, 2, 1>>, <<42960, 42960, 1, 1>>, <<42966, 42968, 2, 1>>,
      <<42997, 42997, 1, 1>>, <<65313, 65338, 1, 32>>, <<66560, 66599, 1, 40>>, <<66736, 66771, 1, 40>>,
      <<66928, 66964, 2, 39>>, <<66929, 66937, 2, 39>>, <<66941, 66953, 2, 39>>, <<66957, 66961, 2, 39>>,
      <<66965, 66965, 1, 39>>, <<68736, 68786, 1, 64>>, <<71840, 71871, 1, 32>>, <<93760, 93791, 1, 32>>,
      <<125184, 125217, 1, 34>>
    }

\* <<lo, hi>>: the codepoints with the Case_Ignorable property.
CaseIgnorableRanges ==
    {
      <<39, 39>>, <<46, 46>>, <<58, 58>>, <<94, 94>>, <<96, 96>>, <<168, 168>>,
      <<173, 173>>, <<175, 175>>, <<180, 180>>, <<183, 184>>, <<688, 879>>, <<884, 885>>,
      <<890, 890>>, <<900, 901>>, <<903, 903>>, <<1155, 1161>>, <<1369, 1369>>, <<1375, 1375>>,
      <<1425, 1469>>, <<1471, 1471>>, <<1473, 1474>>, <<1476, 1477>>, <<1479, 1479>>, <<1524, 1524>>,
      <<1536, 1541>>, <<1552, 1562>>, <<1564, 1564>>, <<1600, 1600>>, <<1611, 1631>>, <<1648, 1648>>,
      <<1750, 1757>>, <<1759, 1768>>, <<1770, 1773>>, <<1807, 1807>>, <<1809, 1809>>, <<1840, 1866>>,
      <<1958, 1968>>, <<2027, 2037>>, <<2042, 2042>>, <<2045, 2045>>, <<2070, 2093>>, <<2137, 2139>>,
      <<2184, 2184>>, <<2192, 2193>>, <<2200, 2207>>, <<2249, 2306>>, <<2362, 2362>>, <<2364, 2364>>,
      <<2369, 2376>>, <<2381, 2381>>, <<2385, 2391>>, <<2402, 2403>>, <<2417, 2417>>, <<2433, 2433>>,
      <<2492, 2492>>, <<2497, 2500>>, <<2509, 2509>>, <<2530, 2531>>, <<2558, 2558>>, <<2561, 2562>>,
      <<2620, 2620>>, <<2625, 2626>>, <<2631, 2632>>, <<2635, 2637>>, <<2641, 2641>>, <<2672, 2673>>,
      <<2677, 2677>>, <<2689, 2690>>, <<2748, 2748>>, <<2753, 2757>>, <<2759, 2760>>, <<2765, 2765>>,
      <<2786, 2787>>, <<2810, 2815>>, <<2817, 2817>>, <<2876, 2876>>, <<2879, 2879>>, <<2881, 2884>>,
      <<2893, 2893>>, <<2901, 2902>>, <<2914, 2915>>, <<2946, 2946>>, <<3008, 3008>>, <<3021, 3021>>,
      <<3072, 3072>>, <<3076, 3076>>, <<3132, 3132>>, <<3134, 3136>>, <<3142, 3144>>, <<3146, 3149>>,
      <<3157, 3158>>, <<3170, 3171>>, <<3201, 3201>>, <<3260, 3260>>, <<3263, 3263>>, <<3270, 3270>>,
      <<3276, 3277>>, <<3298, 3299>>, <<3328, 3329>>, <<3387, 3388>>, <<3393, 3396>>, <<3405, 3405>>,
      <<3426, 3427>>, <<3457, 3457>>, <<3530, 3530>>, <<3538, 3540>>, <<3542, 3542>>, <<3633, 3633>>,
      <<3636, 3642>>, <<3654, 3662>>, <<3761, 3761>>, <<3764, 3772>>, <<3782, 3782>>, <<3784, 3789>>,
      <<3864, 3865>>, <<3893, 3893>>, <<3895, 3895>>, <<3897, 3897>>, <<3953, 3966>>, <<3968, 3972>>,
      <<3974, 3975>>, <<3981, 3991>>, <<3993, 4028>>, <<4038, 4038>>, <<4141, 4144>>, <<4146, 4151>>,
      <<4153, 4154>>, <<4157, 4158>>, <<4184, 4185>>, <<4190, 4192>>, <<4209, 4212>>, <<4226, 4226>>,
      <<4229, 4230>>, <<4237, 4237>>, <<4253, 4253>>, <<4348, 4348>>, <<4957, 4959>>, <<5906, 5908>>,
      <<5938, 5939>>, <<5970, 5971>>, <<6002, 6003>>, <<6068, 6069>>, <<6071, 6077>>, <<6086, 6086>>,
      <<6089, 6099>>, <<6103, 6103>>, <<6109, 6109>>, <<6155, 6159>>, <<6211, 6211>>, <<6277, 6278>>,
      <<6313, 6313>>, <<6432, 6434>>, <<6439, 6440>>, <<6450, 6450>>, <<6457, 6459>>, <<6679, 6680>>,
      <<6683, 6683>>, <<6742, 6742>>, <<6744, 6750>>, <<6752, 6752>>, <<6754, 6754>>, <<6757, 6764>>,
      <<6771, 6780>>, <<6783, 6783>>, <<6823, 6823>>, <<6832, 6862>>, <<6912, 6915>>, <<6964, 6964>>,
      <<6966, 6970>>, <<6972, 6972>>, <<6978, 6978>>, <<7019, 7027>>, <<7040, 7041>>, <<7074, 7077>>,
      <<7080, 7081>>, <<7083, 7085>>, <<7142, 7142>>, <<7144, 7145>>, <<7149, 7149>>, <<7151, 7153>>,
      <<7212, 7219>>, <<7222, 7223>>, <<7288, 7293>>, <<7376, 7378>>, <<7380, 7392>>, <<7394, 7400>>,
      <<7405, 7405>>, <<7412, 7412>>, <<7416, 7417>>, <<7468, 7530>>, <<7544, 7544>>, <<7579, 7679>>,
      <<8125, 8125>>, <<8127, 8129>>, <<8141, 8143>>, <<8157, 8159>>, <<8173, 8175>>, <<8189, 8190>>,
      <<8203, 8207>>, <<8216, 8217>>, <<8228, 8228>>, <<8231, 8231>>, <<8234, 8238>>, <<8288, 8292>>,
      <<8294, 8303>>, <<8305, 8305>>, <<8319, 8319>>, <<8336, 8348>>, <<8400, 8432>>, <<11388, 11389>>,
      <<11503, 11505>>, <<11631, 11631>>, <<11647, 11647>>, <<11744, 11775>>, <<11823, 11823>>, <<12293, 12293>>,
      <<12330, 12333>>, <<12337, 12341>>, <<12347, 12347>>, <<12441, 12446>>, <<12540, 12542>>, <<40981, 40981>>,
      <<42232, 42237>>, <<42508, 42508>>, <<42607, 42610>>, <<42612, 42621>>, <<42623, 42623>>, <<42652, 42655>>,
      <<42736, 42737>>, <<42752, 42785>>, <<42864, 42864>>, <<42888, 42890>>, <<42994, 42996>>, <<43000, 43001>>,
      <<43010, 43010>>, <<43014, 43014>>, <<43019, 43019>>, <<43045, 43046>>, <<43052, 43052>>, <<43204, 43205>>,
      <<43232, 43249>>, <<43263, 43263>>, <<43302, 43309>>, <<43335, 43345>>, <<43392, 43394>>, <<43443, 43443>>,
      <<43446, 43449>>, <<43452, 43453>>, <<43471, 43471>>, <<43493, 43494>>, <<43561, 43566>>, <<43569, 43570>>,
      <<43573, 43574>>, <<43587, 43587>>, <<43596, 43596>>, <<43632, 43632>>, <<43644, 43644>>, <<43696, 43696>>,
      <<43698, 43700>>, <<43703, 43704>>, <<43710, 43711>>, <<43713, 43713>>, <<43741, 43741>>, <<43756, 43757>>,
      <<43763, 43764>>, <<43766, 43766>>, <<43867, 43871>>, <<43881, 43883>>, <<44005, 44005>>, <<44008, 44008>>,
      <<44013, 44013>>, <<64286, 64286>>, <<64434, 64450>>, <<65024, 65039>>, <<65043, 65043>>, <<65056, 65071>>,
      <<65106, 65106>>, <<65109, 65109>>, <<65279, 65279>>, <<65287, 65287>>, <<65294, 65294>>, <<65306, 65306>>,
      <<65342, 65342>>, <<65344, 65344>>, <<65392, 65392>>, <<65438, 65439>>, <<65507, 65507>>, <<65529, 65531>>,
      <<66045, 66045>>, <<66272, 66272>>, <<66422, 66426>>, <<67456, 67461>>, <<67463, 67504>>, <<67506, 67514>>,
      <<68097, 68099>>, <<68101, 68102>>, <<68108, 68111>>, <<68152, 68154>>, <<68159, 68159>>, <<68325, 68326>>,
      <<68900, 68903>>, <<69291, 69292>>, <<69446, 69456>>, <<69506, 69509>>, <<69633, 69633>>, <<69688, 69702>>,
      <<69744, 69744>>, <<69747, 69748>>, <<69759, 69761>>, <<69811, 69814>>, <<69817, 69818>>, <<69821, 69821>>,
      <<69826, 69826>>, <<69837, 69837>>, <<69888, 69890>>, <<69927, 69931>>, <<69933, 69940>>, <<70003, 70003>>,
      <<70016, 70017>>, <<70070, 70078>>, <<70089, 70092>>, <<70095, 70095>>, <<70191, 70193>>, <<70196, 70196>>,
      <<70198, 70199>>, <<70206, 70206>>, <<70367, 70367>>, <<70371, 70378>>, <<70400, 70401>>, <<70459, 70460>>,
      <<70464, 70464>>, <<70502, 70508>>, <<70512, 70516>>, <<70712, 70719>>, <<70722, 70724>>, <<70726, 70726>>,
      <<70750, 70750>>, <<70835, 70840>>, <<70842, 70842>>, <<70847, 70848>>, <<70850, 70851>>, <<71090, 71093>>,
      <<71100, 71101>>, <<71103, 71104>>, <<71132, 71133>>, <<71219, 71226>>, <<71229, 71229>>, <<71231, 71232>>,
      <<71339, 71339>>, <<71341, 71341>>, <<71344, 71349>>, <<71351, 71351>>, <<71453, 71455>>, <<71458, 71461>>,
      <<71463, 71467>>, <<71727, 71735>>, <<71737, 71738>>, <<71995, 71996>>, <<71998, 71998>>, <<72003, 72003>>,
      <<72148, 72151>>, <<72154, 72155>>, <<72160, 72160>>, <<72193, 72202>>, <<72243, 72248>>, <<72251, 72254>>,
      <<72263, 72263>>, <<72273, 72278>>, <<72281, 72283>>, <<72330, 72342>>, <<72344, 72345>>, <<72752, 72758>>,
      <<72760, 72765>>, <<72767, 72767>>, <<72850, 72871>>, <<72874, 72880>>, <<72882, 72883>>, <<72885, 72886>>,
      <<73009, 73014>>, <<73018, 73018>>, <<73020, 73021>>, <<73023, 73029>>, <<73031, 73031>>, <<73104, 73105>>,
      <<73109, 73109>>, <<73111, 73111>>, <<73459, 73460>>, <<78896, 78904>>, <<92912, 92916>>, <<92976, 92982>>,
      <<92992, 92995>>, <<94031, 94031>>, <<94095, 94111>>, <<94176, 94177>>, <<94179, 94180>>, <<110576, 110579>>,
      <<110581, 110587>>, <<110589, 110590>>, <<113821, 113822>>, <<113824, 113827>>, <<118528, 118573>>, <<118576, 118598>>,
      <<119143, 119145>>, <<119155, 119170>>, <<119173, 119179>>, <<119210, 119213>>, <<119362, 119364>>, <<121344, 121398>>,
      <<121403, 121452>>, <<121461, 121461>>, <<121476, 121476>>, <<121499, 121503>>, <<121505, 121519>>, <<122880, 122886>>,
      <<122888, 122904>>, <<122907, 122913>>, <<122915, 122916>>, <<122918, 122922>>, <<123184, 123197>>, <<123566, 123566>>,
      <<123628, 123631>>, <<125136, 125142>>, <<125252, 125259>>, <<127995, 127999>>, <<917505, 917505>>, <<917536, 917631>>,
      <<917760, 917999>>
    }

\* <<lo, hi>>: the codepoints with the Cased property that are not
\* Case_Ignorable (lower-casing asks for Cased only of such a codepoint).
CasedRanges ==
    {
      <<65, 90>>, <<97, 122>>, <<170, 170>>, <<181, 181>>, <<186, 186>>, <<192, 214>>,
      <<216, 246>>, <<248, 442>>, <<444, 447>>, <<452, 659>>, <<661, 687>>, <<880, 883>>,
      <<886, 887>>, <<891, 893>>, <<895, 895>>, <<902, 902>>, <<904, 906>>, <<908, 908>>,
      <<910, 929>>, <<931, 1013>>, <<1015, 1153>>, <<1162, 1327>>, <<1329, 1366>>, <<1376, 1416>>,
      <<4256, 4293>>, <<4295, 4295>>, <<4301, 4301>>, <<4304, 4346>>, <<4349, 4351>>, <<5024, 5109>>,
      <<5112, 5117>>, <<7296, 7304>>, <<7312, 7354>>, <<7357, 7359>>, <<7424, 7467>>, <<7531, 7543>>,
      <<7545, 7578>>, <<7680, 7957>>, <<7960, 7965>>, <<7968, 8005>>, <<8008, 8013>>, <<8016, 8023>>,
      <<8025, 8025>>, <<8027, 8027>>, <<8029, 8029>>, <<8031, 8061>>, <<8064, 8116>>, <<8118, 8124>>,
      <<8126, 8126>>, <<8130, 8132>>, <<8134, 8140>>, <<8144, 8147>>, <<8150, 8155>>, <<8160, 8172>>,
      <<8178, 8180>>, <<8182, 8188>>, <<8450, 8450>>, <<8455, 8455>>, <<8458, 8467>>, <<8469, 8469>>,
      <<8473, 8477>>, <<8484, 8484>>, <<8486, 8486>>, <<8488, 8488>>, <<8490, 8493>>, <<8495, 8500>>,
      <<8505, 8505>>, <<8508, 8511>>, <<8517, 8521>>, <<8526, 8526>>, <<8544, 8575>>, <<8579, 8580>>,
      <<9398, 9449>>, <<11264, 11387>>, <<11390, 11492>>, <<11499, 11502>>, <<11506, 11507>>, <<11520, 11557>>,
      <<11559, 11559>>, <<11565, 11565>>, <<42560, 42605>>, <<42624, 42651>>, <<42786, 42863>>, <<42865, 42887>>,
      <<42891, 42894>>, <<42896, 42954>>, <<42960, 42961>>, <<42963, 42963>>, <<42965, 42969>>, <<42997, 42998>>,
      <<43002, 43002>>, <<43824, 43866>>, <<43872, 43880>>, <<43888, 43967>>, <<64256, 64262>>, <<64275, 64279>>,
      <<65313, 65338>>, <<65345, 65370>>, <<66560, 66639>>, <<66736, 66771>>, <<66776, 66811>>, <<66928, 66938>>,
      <<66940, 66954>>, <<66956, 66962>>, <<66964, 66965>>, <<66967, 66977>>, <<66979, 66993>>, <<66995, 67001>>,
      <<67003, 67004>>, <<68736, 68786>>, <<68800, 68850>>, <<71840, 71903>>, <<93760, 93823>>, <<119808, 119892>>,
      <<119894, 119964>>, <<119966, 119967>>, <<119970, 119970>>, <<119973, 119974>>, <<119977, 119980>>, <<119982, 119993>>,
      <<119995, 119995>>, <<119997, 120003>>, <<120005, 120069>>, <<120071, 120074>>, <<120077, 120084>>, <<120086, 120092>>,
      <<120094, 120121>>, <<120123, 120126>>, <<120128, 120132>>, <<120134, 120134>>, <<120138, 120144>>, <<120146, 120485>>,
      <<120488, 120512>>, <<120514, 120538>>, <<120540, 120570>>, <<120572, 120596>>, <<120598, 120628>>, <<120630, 120654>>,
      <<120656, 120686>>, <<120688, 120712>>, <<120714, 120744>>, <<120746, 120770>>, <<120772, 120779>>, <<122624, 122633>>,
      <<122635, 122654>>, <<125184, 125251>>, <<127280, 127305>>, <<127312, 127337>>, <<127344, 127369>>
    }

IsCaseIgnorable(c) == \E r \in CaseIgnorableRanges : r[1] <= c /\ c <= r[2]

IsCased(c) == \E r \in CasedRanges : r[1] <= c /\ c <= r[2]

\* The lower case of one codepoint other than GREEK CAPITAL LETTER SIGMA, as
\* a string: LATIN CAPITAL LETTER I WITH DOT ABOVE (U+0130) becomes two
\* codepoints, i and COMBINING DOT ABOVE.
LowerChar(c) ==
    IF c < 128 THEN (IF c \in 65..90 THEN <<c + 32>> ELSE <<c>>)
    ELSE IF c = 304 THEN <<105, 775>>
    ELSE LET hit == {r \in LowerRanges :
                        r[1] <= c /\ c <= r[2] /\ (c - r[1]) % r[3] = 0}
         IN  IF hit = {} THEN <<c>>
             ELSE <<c + (CHOOSE r \in hit : TRUE)[4]>>

\* Index of the nearest codepoint before i that is not Case_Ignorable (0: none).
RECURSIVE SkipIgnorableBack(_, _)
SkipIgnorableBack(s, j) ==
    IF j >= 1 /\ IsCaseIgnorable(s[j]) THEN SkipIgnorableBack(s, j - 1) ELSE j

\* Index of the nearest codepoint from j on that is not Case_Ignorable
\* (Len(s) + 1: none).
RECURSIVE SkipIgnorableForward(_, _)
SkipIgnorableForward(s, j) ==
    IF j <= Len(s) /\ IsCaseIgnorable(s[j]) THEN SkipIgnorableForward(s, j + 1) ELSE j

\* The SIGMA at index i ends a word: a cased letter comes before it and none
\* comes after it, Case_Ignorable codepoints skipped.
IsFinalSigma(s, i) ==
    LET b == SkipIgnorableBack(s, i - 1)
        a == SkipIgnorableForward(s, i + 1)
    IN  /\ b >= 1 /\ IsCased(s[b])
        /\ (a > Len(s) \/ ~IsCased(s[a]))

\* The lower case of the codepoint at index i of s.
LowerAt(s, i) ==
    IF s[i] = 931 THEN (IF IsFinalSigma(s, i) THEN <<962>> ELSE <<963>>)
    ELSE LowerChar(s[i])

RECURSIVE LowerFrom(_, _)
LowerFrom(s, i) ==
    IF i > Len(s) THEN <<>> ELSE LowerAt(s, i) \o LowerFrom(s, i + 1)

\* str.lower()
Lower(s) == LowerFrom(s, 1)

RECURSIVE LStrip(_)
LStrip(s) ==
    IF s # <<>> /\ IsSpace(Head(s)) THEN LStrip(Tail(s)) ELSE s

RECURSIVE RStrip(_)
RStrip(s) ==
    IF s # <<>> /\ IsSpace(s[Len(s)]) THEN RStrip(SubSeq(s, 1, Len(s) - 1)) ELSE s

\* str.strip()
Strip(s) == RStrip(LStrip(s))

\* Python's order on str: lexicographic by codepoint.
RECURSIVE StrLess(_, _)
StrLess(s, t) ==
    IF t = <<>> THEN FALSE
    ELSE IF s = <<>> THEN TRUE
    ELSE IF Head(s) # Head(t) THEN Head(s) < Head(t)
    ELSE StrLess(Tail(s), Tail(t))

-----------------------------------------------------------------------------
\* dict and Counter.

DictKeys(d) == [i \in 1..Len(d) |-> d[i].k]

DictHas(d, key) == \E i \in 1..Len(d) : d[i].k = key

\* d.get(key, default)
DictGet(d, key, default) ==
    IF DictHas(d, key)
    THEN d[CHOOSE i \in 1..Len(d) : d[i].k = key].v
    ELSE default

\* d[key] = val: an existing key keeps its position.
DictSet(d, key, val) ==
    IF DictHas(d, key)
    THEN [i \in 1..Len(d) |-> IF d[i].k = key THEN [k |-> key, v |-> val] ELSE d[i]]
    ELSE Append(d, [k |-> key, v |-> val])

\* Counter(tokens)
RECURSIVE CounterFrom(_, _)
CounterFrom(tokens, c) ==
    IF tokens = <<>> THEN c
    ELSE CounterFrom(Tail(tokens), DictSet(c, Head(tokens), DictGet(c, Head(tokens), 0) + 1))

Counter(tokens) == CounterFrom(tokens, <<>>)

\* Mutation of MaxValue: min() in place of max().
MinValue(d) ==
    CHOOSE m \in {d[i].v : i \in 1..Len(d)} : \A i \in 1..Len(d) : m <= d[i].v

\* max(d.values()) of a non-empty dict
MaxValue(d) ==
    CHOOSE m \in {d[i].v : i \in 1..Len(d)} : \A i \in 1..Len(d) : d[i].v <= m

\* [k for k, v in d.items() if v == val]
RECURSIVE KeysWithValue(_, _)
KeysWithValue(d, val) ==
    IF d = <<>> THEN <<>>
    ELSE (IF Head(d).v = val THEN <<Head(d).k>> ELSE <<>>) \o KeysWithValue(Tail(d), val)

\* sorted(keys): insertion into an ascending list.
RECURSIVE InsertSorted(_, _)
InsertSorted(sortedKeys, key) ==
    IF sortedKeys = <<>> THEN <<key>>
    ELSE IF StrLess(key, Head(sortedKeys)) THEN <<key>> \o sortedKeys
    ELSE <<Head(sortedKeys)>> \o InsertSorted(Tail(sortedKeys), key)

RECURSIVE SortedFrom(_, _)
SortedFrom(keys, acc) ==
    IF keys = <<>> THEN acc
    ELSE SortedFrom(Tail(keys), InsertSorted(acc, Head(keys)))

\* Mutation of sorted: the keys left in insertion order.
Unsorted(keys) == keys

sorted(keys) == SortedFrom(keys, <<>>)

-----------------------------------------------------------------------------
\* Tokenizers: re.findall scans left to right and resumes after each match.

\* Index just past the run of [0-9A-Za-z가-힣] that starts at i.
RECURSIVE AlnumRunEnd(_, _)
AlnumRunEnd(s, i) ==
    IF i <= Len(s) /\ IsAlnum(s[i]) THEN AlnumRunEnd(s, i + 1) ELSE i

\* Index just past the run of [^\s0-9A-Za-z가-힣] that starts at i.
RECURSIVE JoinerRunEnd(_, _)
JoinerRunEnd(s, i) ==
    IF i <= Len(s) /\ IsJoiner(s[i]) THEN JoinerRunEnd(s, i + 1) ELSE i

\* Mutation of CompoundEnd: no joined block is absorbed.
NoCompound(s, i) == i

\* (?:[^\s0-9A-Za-z가-힣]+[0-9A-Za-z가-힣]+)* from index i: index just past it.
RECURSIVE CompoundEnd(_, _)
CompoundEnd(s, i) ==
    LET j == JoinerRunEnd(s, i)
        e == AlnumRunEnd(s, j)
    IN  IF j > i /\ e > j THEN CompoundEnd(s, e) ELSE i

\* re.findall(token_pattern, s) from index i on.
RECURSIVE FindCompoundTokens(_, _)
FindCompoundTokens(s, i) ==
    IF i > Len(s) THEN <<>>
    ELSE IF IsAlnum(s[i])
         THEN LET e == CompoundEnd(s, AlnumRunEnd(s, i))
              IN  <<SubSeq(s, i, e - 1)>> \o FindCompoundTokens(s, e)
         ELSE FindCompoundTokens(s, i + 1)

\* Mutation of FindPlainTokens: the compound pattern used for the top words.
FindJoinedTokens(s, i) == FindCompoundTokens(s, i)

\* re.findall(r"[0-9A-Za-z가-힣]+", s) from index i on.
RECURSIVE FindPlainTokens(_, _)
FindPlainTokens(s, i) ==
    IF i > Len(s) THEN <<>>
    ELSE IF IsAlnum(s[i])
         THEN LET e == AlnumRunEnd(s, i)
              IN  <<SubSeq(s, i, e - 1)>> \o FindPlainTokens(s, e)
         ELSE FindPlainTokens(s, i + 1)

\* Mutation of PhraseMatchAt: the lookahead (?!\S) left out.
PhraseMatchNoLookahead(s, term, i) ==
    /\ i + Len(term) - 1 <= Len(s)
    /\ (i = 1 \/ IsSpace(s[i - 1]))
    /\ SubSeq(s, i, i + Len(term) - 1) = term

\* (?<!\S) term (?!\S) matched at index i; re.escape makes term a literal.
PhraseMatchAt(s, term, i) ==
    /\ i + Len(term) - 1 <= Len(s)
    /\ (i = 1 \/ IsSpace(s[i - 1]))
    /\ SubSeq(s, i, i + Len(term) - 1) = term
    /\ (i + Len(term) > Len(s) \/ IsSpace(s[i + Len(term)]))

\* len(re.findall(phrase_pattern, s)) from index i on.
RECURSIVE CountPhrase(_, _, _)
CountPhrase(s, term, i) ==
    IF i > Len(s) THEN 0
    ELSE IF PhraseMatchAt(s, term, i)
         THEN 1 + CountPhrase(s, term, i + Len(term))
         ELSE CountPhrase(s, term, i + 1)

-----------------------------------------------------------------------------
\* count_terms_in_text, count_top_words, build_result.

\* term = (original or "").strip().lower()
NormTerm(original) == Lower(Strip(original))

\* Mutation of IsPhraseTerm: any whitespace character makes a phrase.
IsPhraseTermAnyWhitespace(term) == \E i \in 1..Len(term) : IsSpace(term[i])

\* " " in term
IsPhraseTerm(term) == \E i \in 1..Len(term) : term[i] = 32

\* Mutation of OutKey: the normalised term as the key.
OutKeyNormalized(original, term) == term

\* The key of out that a term's count is stored under: out[original] = ...
OutKey(original, term) == original

\* The count one term gets (the if/else of the loop body).
TermCount(lower_text, counter, term) ==
    IF IsPhraseTerm(term)
    THEN CountPhrase(lower_text, term, 1)
    ELSE DictGet(counter, term, 0)

RECURSIVE CountTermsLoop(_, _, _, _)
CountTermsLoop(lower_text, counter, rest, out) ==
    IF rest = <<>> THEN out
    ELSE LET original == Head(rest)
             term == NormTerm(original)
         IN  IF term = <<>>
             THEN CountTermsLoop(lower_text, counter, Tail(rest), out)
             ELSE CountTermsLoop(lower_text, counter, Tail(rest),
                                 DictSet(out, OutKey(original, term),
                                         TermCount(lower_text, counter, term)))

count_terms_in_text(t, ts) ==
    LET lower_text == Lower(t)
        counter == Counter(FindCompoundTokens(lower_text, 1))
    IN  CountTermsLoop(lower_text, counter, ts, <<>>)

count_top_words(t) ==
    LET c == Counter(FindPlainTokens(Lower(t), 1))
    IN  IF c = <<>> THEN <<>>
        ELSE SelectSeq(c, LAMBDA e : e.v = MaxValue(c))

ErrorResult == [kind |-> "error", items |-> <<>>]

\* {k: d[k] for k in keys}
Project(d, keys) == [i \in 1..Len(keys) |-> [k |-> keys[i], v |-> DictGet(d, keys[i], 0)]]

CountsResult(d, keys) == [kind |-> "counts", items |-> Project(d, keys)]

\* Mutation of IsBlankText: the text compared without strip().
IsEmptyText(t) == t = <<>>

\* text.strip() == ""
IsBlankText(t) == Strip(t) = <<>>

\* terms and any(t.strip() for t in terms)
HasUsableTerm(ts) == ts # <<>> /\ \E i \in 1..Len(ts) : Strip(ts[i]) # <<>>

\* Mutation of SelectTerms: a maximum of 0 reported as the error.
SelectTermsZeroIsError(cnts) ==
    IF cnts = <<>> \/ MaxValue(cnts) = 0 THEN ErrorResult
    ELSE [kind |-> "counts",
          items |-> Project(cnts, sorted(KeysWithValue(cnts, MaxValue(cnts))))]

\* Lines 67-72: the result of term mode from the count map.
SelectTerms(cnts) ==
    IF cnts = <<>> THEN ErrorResult
    ELSE CountsResult(cnts, sorted(KeysWithValue(cnts, MaxValue(cnts))))

\* Lines 75-80: the result of no-terms mode from the top words.
SelectTop(top) ==
    IF top = <<>> THEN ErrorResult
    ELSE CountsResult(top, sorted(DictKeys(top)))

build_result(t, ts) ==
    IF IsBlankText(t) THEN ErrorResult
    ELSE IF HasUsableTerm(ts) THEN SelectTerms(count_terms_in_text(t, ts))
    ELSE SelectTop(count_top_words(t))

-----------------------------------------------------------------------------
\* Inputs.

RECURSIVE SeqsUpTo(_, _)
SeqsUpTo(S, n) ==
    IF n = 0 THEN {<<>>}
    ELSE LET shorter == SeqsUpTo(S, n - 1)
         IN  shorter \cup {Append(s, c) : s \in shorter, c \in S}

\* SPACE, "-", "A", "a"
TextChars == {32, 45, 65, 97}

Texts == SeqsUpTo(TextChars, MaxTextLen)

\* TAB, SPACE, "a"
ShortChars == {9, 32, 97}

ShortTexts == SeqsUpTo(ShortChars, MaxShortLen)

\* "", " ", "a", "A", " a", "a a", "a-a", "a<TAB>a"
TermPool ==
    { <<>>, <<32>>, <<97>>, <<65>>, <<32, 97>>, <<97, 32, 97>>, <<97, 45, 97>>,
      <<97, 9, 97>> }

SingleTermLists == {<<>>} \cup {<<t>> : t \in TermPool}

TermLists == SeqsUpTo(TermPool, MaxTerms)

\* SPACE, "a", LATIN CAPITAL A WITH GRAVE, LATIN CAPITAL I WITH DOT ABOVE,
\* GREEK CAPITAL SIGMA, KELVIN SIGN
WideChars == {32, 97, 192, 304, 931, 8490}

WideTexts == SeqsUpTo(WideChars, MaxShortLen)

\* "i", "k", "a<small sigma>a", "a<final small sigma>", "<capital A grave> a"
WideTermPool == { <<105>>, <<107>>, <<97, 963, 97>>, <<97, 962>>, <<192, 32, 97>> }

WideTermLists == {<<>>} \cup {<<t>> : t \in WideTermPool}

\* The calls checked: every text up to MaxTextLen with no term or one term,
\* every text up to MaxShortLen with every term list up to MaxTerms, and every
\* text up to MaxShortLen with letters outside ASCII, with no term or one term.
Calls ==
    (Texts \X SingleTermLists) \cup (ShortTexts \X TermLists)
        \cup (WideTexts \X WideTermLists)

NoResult == [kind |-> "none", items |-> <<>>]

Init ==
    /\ \E call \in Calls : text = call[1] /\ terms = call[2]
    /\ pc = "start"
    /\ counts = <<>>
    /\ result = NoResult

\* Lines 61-62.
EmptyText ==
    /\ pc = "start"
    /\ IsBlankText(text)
    /\ result' = ErrorResult
    /\ pc' = "done"
    /\ UNCHANGED <<text, terms, counts>>

\* Lines 65-72.
TermMode ==
    /\ pc = "start"
    /\ ~IsBlankText(text)
    /\ HasUsableTerm(terms)
    /\ counts' = count_terms_in_text(text, terms)
    /\ result' = SelectTerms(counts')
    /\ pc' = "done"
    /\ UNCHANGED <<text, terms>>

\* Lines 75-80.
TopMode ==
    /\ pc = "start"
    /\ ~IsBlankText(text)
    /\ ~HasUsableTerm(terms)
    /\ result' = SelectTop(count_top_words(text))
    /\ pc' = "done"
    /\ UNCHANGED <<text, terms, counts>>

Next == EmptyText \/ TermMode \/ TopMode

Spec == Init /\ [][Next]_vars

-----------------------------------------------------------------------------
\* Vocabulary of the properties, stated without the scanners above.

Done == pc = "done"

IsError == result.kind = "error"

ResultKeys == {result.items[i].k : i \in 1..Len(result.items)}

ResultValue(key) == DictGet(result.items, key, -1)

\* A string none of whose characters is other than whitespace.
AllWhitespace(s) == \A i \in 1..Len(s) : IsSpace(s[i])

ContainsWhitespace(s) == \E i \in 1..Len(s) : IsSpace(s[i])

\* The supplied terms that are not blank, as supplied.
UsableTerms == {terms[i] : i \in {j \in 1..Len(terms) : ~AllWhitespace(terms[j])}}

TermModeCall == ~AllWhitespace(text) /\ UsableTerms # {}

NoTermsCall == ~AllWhitespace(text) /\ UsableTerms = {}

\* s before t in codepoint order: s is a proper prefix of t, or they first
\* differ at a position where s has the smaller codepoint.
CodepointBefore(s, t) ==
    \/ Len(s) < Len(t) /\ \A i \in 1..Len(s) : s[i] = t[i]
    \/ \E p \in 1..Len(s) :
          /\ p <= Len(t)
          /\ s[p] < t[p]
          /\ \A i \in 1..(p - 1) : s[i] = t[i]

Spans(s) == {sp \in (1..Len(s)) \X (1..Len(s)) : sp[1] <= sp[2]}

\* Spans of s that are maximal runs of alphabet characters.
PlainSpans(s) ==
    {sp \in Spans(s) :
        /\ \A i \in sp[1]..sp[2] : IsAlnum(s[i])
        /\ (sp[1] = 1 \/ ~IsAlnum(s[sp[1] - 1]))
        /\ (sp[2] = Len(s) \/ ~IsAlnum(s[sp[2] + 1]))}

\* Spans of the form alnum-block (joiner-block alnum-block)*: they begin and
\* end with an alphabet character and hold no whitespace.
CompoundForm(s) ==
    {sp \in Spans(s) :
        /\ IsAlnum(s[sp[1]])
        /\ IsAlnum(s[sp[2]])
        /\ \A i \in sp[1]..sp[2] : ~IsSpace(s[i])}

\* The maximal ones: contained in no other span of that form.
CompoundSpans(s) ==
    LET form == CompoundForm(s)
    IN  {sp \in form :
            \A other \in form :
                (other[1] <= sp[1] /\ sp[2] <= other[2]) => other = sp}

\* How many of the spans read w.
Occurrences(s, spans, w) ==
    Cardinality({sp \in spans : SubSeq(s, sp[1], sp[2]) = w})

\* Start positions where phrase p stands alone in s: bounded on the left by
\* the start of s or whitespace, on the right by the end of s or whitespace.
StandalonePositions(s, p) ==
    {i \in 1..Len(s) :
        /\ i + Len(p) - 1 <= Len(s)
        /\ \A j \in 1..Len(p) : s[i + j - 1] = p[j]
        /\ (i = 1 \/ IsSpace(s[i - 1]))
        /\ (i + Len(p) - 1 = Len(s) \/ IsSpace(s[i + Len(p)]))}

\* The left-to-right non-overlapping choice among them: a position is taken
\* exactly when no taken position to its left overlaps it.
LeftToRight(s, p) ==
    LET positions == StandalonePositions(s, p)
    IN  CHOOSE G \in SUBSET positions :
            \A i \in positions :
                i \in G <=> ~\E q \in G : q < i /\ i < q + Len(p)

StandaloneCount(s, p) == Cardinality(LeftToRight(s, p))

\* The count map's entry for a supplied term (-1: no entry).
CountOf(original) == DictGet(counts, original, -1)

\* What each candidate of the call counts: a non-blank term its entry of the
\* count map, a word of the lower-cased text its number of occurrences.
CandidateCounts ==
    IF UsableTerms # {} THEN [c \in UsableTerms |-> CountOf(c)]
    ELSE LET lower_text == Lower(text)
             spans == PlainSpans(lower_text)
         IN  [w \in {SubSeq(lower_text, sp[1], sp[2]) : sp \in spans} |->
                  Occurrences(lower_text, spans, w)]

\* The candidates whose count is the maximum.
MaxCandidates ==
    LET cnt == CandidateCounts
    IN  {c \in DOMAIN cnt : \A d \in DOMAIN cnt : cnt[d] <= cnt[c]}

-----------------------------------------------------------------------------
\* C1: a result that is not the error has at least one key, and its keys are
\* exactly the candidates (non-blank terms in term mode, words of the text in
\* no-terms mode) whose count is the maximum over the candidates.
C1_KeysAreTheMaxima ==
    (Done /\ ~IsError) =>
        /\ ResultKeys # {}
        /\ ResultKeys = MaxCandidates

\* C1 in both of its halves needs a candidate below the maximum that is left
\* out; here, two terms of which one counts less.
C1_Witness ==
    /\ Done /\ ~IsError
    /\ Cardinality(UsableTerms) = 2
    /\ Cardinality(ResultKeys) = 1
    /\ \E c \in UsableTerms : c \notin MaxCandidates

\* C2: the keys of a result that is not the error are in strictly ascending
\* codepoint order.
C2_KeysAscend ==
    (Done /\ ~IsError) =>
        \A i \in 1..(Len(result.items) - 1) :
            CodepointBefore(result.items[i].k, result.items[i + 1].k)

\* Two terms supplied in descending order are both keys.
C2_Witness ==
    /\ Done /\ ~IsError
    /\ Len(terms) = 2
    /\ CodepointBefore(terms[2], terms[1])
    /\ ResultKeys = {terms[1], terms[2]}

\* C3: for a text that is empty or all whitespace the result is the error,
\* whatever the terms, with no count made and no key.
C3_BlankTextIsError ==
    (Done /\ AllWhitespace(text)) =>
        /\ result.kind = "error"
        /\ result.items = <<>>
        /\ counts = <<>>

\* A whitespace-only text with a non-blank term.
C3_Witness ==
    /\ Done
    /\ text # <<>> /\ AllWhitespace(text)
    /\ UsableTerms # {}
    /\ IsError

\* C4: a non-empty term list whose terms are all blank, with a non-blank text,
\* gives the error result.
C4_BlankTermsAreError ==
    (Done /\ ~AllWhitespace(text) /\ terms # <<>> /\ UsableTerms = {}) => IsError

\* C5: in term mode every key is a supplied non-blank term exactly as supplied.
C5_KeysAreSuppliedTerms ==
    (Done /\ TermModeCall) => ResultKeys \subseteq UsableTerms

\* A key that differs from its trimmed lower-cased form and was found in the text.
C5_Witness ==
    /\ Done /\ TermModeCall
    /\ \E key \in ResultKeys : NormTerm(key) # key /\ ResultValue(key) > 0

\* C6: a term without whitespace counts the compound tokens of the lower-cased
\* text that equal the trimmed lower-cased term.
C6_WordTermCount ==
    (Done /\ TermModeCall) =>
        LET lower_text == Lower(text)
            tokens == CompoundSpans(lower_text)
        IN  \A t \in UsableTerms :
                ~ContainsWhitespace(NormTerm(t)) =>
                    CountOf(t) = Occurrences(lower_text, tokens, NormTerm(t))

\* A word that stands alone once and is joined by punctuation elsewhere.
C6_Witness ==
    /\ Done /\ TermModeCall
    /\ \E t \in UsableTerms :
          /\ ~ContainsWhitespace(NormTerm(t))
          /\ CountOf(t) = 1
          /\ Occurrences(Lower(text), PlainSpans(Lower(text)), NormTerm(t)) > 1

\* C7: a phrase term counts the left-to-right non-overlapping standalone
\* occurrences of the trimmed lower-cased phrase in the lower-cased text.
C7_PhraseTermCount ==
    (Done /\ TermModeCall) =>
        LET lower_text == Lower(text)
        IN  \A t \in UsableTerms :
                (\E i \in 1..Len(NormTerm(t)) : NormTerm(t)[i] = 32) =>
                    CountOf(t) = StandaloneCount(lower_text, NormTerm(t))

\* Two standalone occurrences that overlap, of which one is counted.
C7_Witness ==
    /\ Done /\ TermModeCall
    /\ \E t \in UsableTerms :
          /\ Cardinality(StandalonePositions(Lower(text), NormTerm(t))) = 2
          /\ CountOf(t) = 1

\* C8 as stated: a term whose trimmed lower-cased form holds whitespace of any
\* kind is counted by the standalone-phrase rule, any other term by lookup
\* among the compound tokens.
C8_AnyWhitespaceMakesPhrase ==
    (Done /\ TermModeCall) =>
        LET lower_text == Lower(text)
            tokens == CompoundSpans(lower_text)
        IN  \A t \in UsableTerms :
                CountOf(t) =
                    IF ContainsWhitespace(NormTerm(t))
                    THEN StandaloneCount(lower_text, NormTerm(t))
                    ELSE Occurrences(lower_text, tokens, NormTerm(t))

\* C8 amended: a term is counted by the standalone-phrase rule when its trimmed
\* lower-cased form holds a SPACE (U+0020); any other term, one with a TAB or
\* newline inside included, by lookup among the compound tokens.
C8_SpaceMakesPhrase ==
    (Done /\ TermModeCall) =>
        LET lower_text == Lower(text)
            tokens == CompoundSpans(lower_text)
        IN  \A t \in UsableTerms :
                CountOf(t) =
                    IF 32 \in {NormTerm(t)[i] : i \in 1..Len(NormTerm(t))}
                    THEN StandaloneCount(lower_text, NormTerm(t))
                    ELSE Occurrences(lower_text, tokens, NormTerm(t))

\* A term with a TAB and no SPACE that stands alone in the text and counts 0.
C8_Witness ==
    /\ Done /\ TermModeCall
    /\ \E t \in UsableTerms :
          /\ ContainsWhitespace(NormTerm(t))
          /\ 32 \notin {NormTerm(t)[i] : i \in 1..Len(NormTerm(t))}
          /\ StandalonePositions(Lower(text), NormTerm(t)) # {}
          /\ CountOf(t) = 0

\* C9: in term mode the result is never the error and the count map is never
\* empty; when every term counts 0 the result holds every non-blank term with 0.
C9_TermModeNeverError ==
    (Done /\ TermModeCall) =>
        /\ ~IsError
        /\ counts # <<>>
        /\ (\A t \in UsableTerms : CountOf(t) = 0) =>
              /\ ResultKeys = UsableTerms
              /\ \A key \in ResultKeys : ResultValue(key) = 0

\* Two terms, neither found.
C9_Witness ==
    /\ Done /\ TermModeCall
    /\ Cardinality(UsableTerms) = 2
    /\ \A t \in UsableTerms : CountOf(t) = 0
    /\ ResultKeys = UsableTerms

\* What C10 says of a result that is not the error: its keys are the words of
\* the lower-cased text of maximal frequency, each with that frequency, where
\* every character outside the alphabet separates words.
TopWordsReturned ==
    LET lower_text == Lower(text)
        spans == PlainSpans(lower_text)
        words == {SubSeq(lower_text, sp[1], sp[2]) : sp \in spans}
        freq == [w \in words |-> Occurrences(lower_text, spans, w)]
    IN  /\ ResultKeys = {w \in words : \A x \in words : freq[x] <= freq[w]}
        /\ \A key \in ResultKeys : ResultValue(key) = freq[key]

\* C10 as stated: with no usable term and a non-blank text the result is the
\* error exactly when the text holds no character of the alphabet.
C10_ErrorIffNoAlphabetInText ==
    (Done /\ NoTermsCall) =>
        /\ IsError <=> \A i \in 1..Len(text) : ~IsAlnum(text[i])
        /\ ~IsError => TopWordsReturned

\* C10 amended: the result is the error exactly when the lower-cased text
\* holds no character of the alphabet.
C10_ErrorIffNoAlphabetInLowerText ==
    (Done /\ NoTermsCall) =>
        /\ IsError <=> LET lower_text == Lower(text)
                       IN  \A i \in 1..Len(lower_text) : ~IsAlnum(lower_text[i])
        /\ ~IsError => TopWordsReturned

\* A text where punctuation joins two blocks, each counted as a word.
C10_Witness ==
    /\ Done /\ NoTermsCall /\ ~IsError
    /\ CompoundSpans(Lower(text)) # PlainSpans(Lower(text))
    /\ \E key \in ResultKeys : ResultValue(key) = 2

====
